---- MODULE Spec2Model ----
(***************************************************************************)
(* A model of tvd.c, the TV daemon: the power/playback state machine, the  *)
(* supervision of the external ffmpeg process group, the child reaper and  *)
(* the tap / double-tap recogniser of the controller loop.                 *)
(*                                                                         *)
(* The daemon is one thread: its loop is modelled as a sequence of steps   *)
(* (pc), each one a block of main().  The environment (the power switch,   *)
(* the finger on the touch panel, the death of child processes, a signal   *)
(* sent to the daemon) acts between the steps.  The functions of tvd.c are *)
(* operators from a state record to a state record; the outcomes the code  *)
(* does not control (what popen/fork return, whether a process reacts to   *)
(* SIGTERM, whether a killed process is already reapable) are inputs.      *)
(***************************************************************************)
EXTENDS Integers, Sequences, FiniteSets, TLC

(* ---------------- program constants (tvd.c) ---------------- *)
DOUBLE_TAP_WINDOW_MS == 320
SWITCH_POLL_MS == 40
STATIC_MS == 250
STATIC_FRAMES == 3
FRAME_MS == 20
STOP_POLLS == 25
STOP_POLL_MS == 30
SLEEP_MS == 10

ST_OFF == 0
ST_PLAYING == 1
ST_PAUSED == 2

NO_PID == -1
NULL == "NULL"

(* ---------------- bounds of the model ---------------- *)
\* process ids are 1..MaxPid
MaxPid == 3
\* iterations of the controller loop in one behaviour
MaxTicks == 4
\* events of the environment in one behaviour: changes of the switch level,
\* taps, deaths of a playback process that nobody killed, signals to the daemon
MaxEvents == 2
\* ticks of one behaviour that end on time (see SleepDeltas)
MaxOnTime == 1
\* CLOCK_MONOTONIC when the daemon starts, ms
BootTime == 1000

Pids == 1..MaxPid
Videos == {"ep1"}
\* the contents of /mnt/videos the model starts from
Libraries == SUBSET Videos
\* how long the ms_sleep(10) that ends a tick takes: 10 ms, on time, or a whole
\* double-tap window (a late tick, or 32 ticks with nothing to do taken as one)
SleepDeltas == {SLEEP_MS, DOUBLE_TAP_WINDOW_MS}

States == {ST_OFF, ST_PLAYING, ST_PAUSED}

VARIABLES
  \* ---- the daemon's globals and main()'s locals
  state,               \* tv_state_t state
  ffmpeg_pid,          \* pid_t ffmpeg_pid (NO_PID when none)
  ffmpeg_paused,       \* bool ffmpeg_paused
  pending_single,      \* bool pending_single
  pending_deadline_ms, \* long long pending_deadline_ms
  g_stop,              \* sig_atomic_t g_stop
  tfd_ok,              \* tfd >= 0
  ts,                  \* touch_state_t ts
  last_switch_poll,    \* main()'s last_switch_poll
  now,                 \* main()'s now, read at the loop head
  pc,                  \* where main() is
  \* ---- the environment
  clk,                 \* CLOCK_MONOTONIC, ms
  procs,               \* the daemon's children, by pid
  sw,                  \* level of the switch (TRUE: on)
  evq,                 \* events buffered by the touch device: 1 press, 0 release
  library,             \* the video files of VIDEO_DIR
  \* ---- history (not read by the daemon)
  ev,                  \* what the last step did
  rel,                 \* the releases made so far: time, power (on, off), fate
  armer,               \* index in rel of the release that armed the pending tap last
  died_in,             \* state when the tracked process died (-1: it did not)
  ticks,               \* loop iterations so far
  events,              \* events of the environment so far
  ontime,              \* ticks that ended on time so far
  tk,                  \* transitions applied in the current tick: by the switch, by taps
  launch_failed        \* a start_playback has returned without a process

vars == <<state, ffmpeg_pid, ffmpeg_paused, pending_single, pending_deadline_ms,
          g_stop, tfd_ok, ts, last_switch_poll, now, pc, clk, procs, sw, evq,
          library, ev, rel, armer, died_in, ticks, events, ontime, tk,
          launch_failed>>

(* ---------------- helpers ---------------- *)
Min(S) == CHOOSE x \in S : \A y \in S : x <= y

NoProc == [st |-> "none", kind |-> "none", file |-> NULL]

\* the record of what one step did
NoEv(op) ==
  [op |-> op, pre |-> state, pre_pid |-> ffmpeg_pid, pre_pending |-> pending_single,
   pre_paused |-> ffmpeg_paused, pre_deadline |-> pending_deadline_ms,
   calls |-> <<>>, sigs |-> <<>>, polls |-> 0, starts |-> 0, failed |-> 0, forked |-> {},
   reaped |-> {}, kinds |-> {}, toggles |-> 0, nexts |-> 0, nxt_pending |-> FALSE,
   pwr |-> "none", died_in |-> -1, tap |-> 0]

\* the part of the state the functions of tvd.c work on
St(op) ==
  [state |-> state, ffmpeg_pid |-> ffmpeg_pid, ffmpeg_paused |-> ffmpeg_paused,
   pending_single |-> pending_single, pending_deadline_ms |-> pending_deadline_ms,
   clk |-> clk, procs |-> procs, lib |-> library, g |-> NoEv(op)]

Set(s) ==
  /\ state' = s.state
  /\ ffmpeg_pid' = s.ffmpeg_pid
  /\ ffmpeg_paused' = s.ffmpeg_paused
  /\ pending_single' = s.pending_single
  /\ pending_deadline_ms' = s.pending_deadline_ms
  /\ clk' = s.clk
  /\ procs' = s.procs
  /\ ev' = s.g

\* the outcomes the daemon does not control, as an input record
Picks(lib) == lib \cup {NULL}
NoIn == [term_dies |-> FALSE, quick |-> TRUE, v |-> NULL, fork_ok |-> TRUE,
         afork_ok |-> TRUE, audio_done |-> TRUE]
StopIn == {[NoIn EXCEPT !.term_dies = a, !.quick = b] : a \in BOOLEAN, b \in BOOLEAN}
StartIn(lib) == {[NoIn EXCEPT !.v = a, !.fork_ok = b] : a \in Picks(lib), b \in BOOLEAN}
NextIn(lib) ==
  {[i EXCEPT !.term_dies = a, !.quick = b, !.afork_ok = c, !.audio_done = d] :
     i \in StartIn(lib), a \in BOOLEAN, b \in BOOLEAN, c \in BOOLEAN, d \in BOOLEAN}

\* the step entered the function f
Called(s, f) == [s EXCEPT !.g.calls = Append(@, f)]

(* ---------------- time ---------------- *)
now_ms_monotonic(s) == s.clk

ms_sleep(s, ms) == [s EXCEPT !.clk = @ + ms]

(* ---------------- processes and signals ---------------- *)
\* fork(): the child's pid, or -1.  The daemon only compares pids for
\* equality, so the lowest free pid stands for any free pid.
fork(s, ok) ==
  LET free == {p \in Pids : s.procs[p].st = "none"}
  IN IF ok /\ free # {} THEN Min(free) ELSE NO_PID

\* kill(-pid, sig): the signal goes to the whole group led by pid; the group is
\* modelled by its leader.  SIGTERM leaves the process to end by itself (or not);
\* a process killed by SIGKILL is a zombie at once (quick) or a little later.
kill_group(s, pid, sig, quick) ==
  LET p == s.procs[pid]
      st2 == CASE sig = "SIGKILL" /\ p.st \in {"run", "stop"} ->
                    IF quick THEN "zombie" ELSE "dying"
               [] sig = "SIGSTOP" /\ p.st = "run" -> "stop"
               [] sig = "SIGCONT" /\ p.st = "stop" -> "run"
               [] OTHER -> p.st
  \* the history keeps the signal, the group and what the leader was doing
  IN [s EXCEPT !.procs[pid].st = st2, !.g.sigs = Append(@, <<sig, pid, p.st>>)]

\* waitpid(pid, &st, WNOHANG): reaps pid if it is a zombie
waitpid_nohang(s, pid) ==
  IF s.procs[pid].st = "zombie"
  THEN [s EXCEPT !.procs[pid] = NoProc, !.g.reaped = @ \cup {pid}]
  ELSE s

ffmpeg_alive(s) == s.ffmpeg_pid > 0 /\ s.procs[s.ffmpeg_pid].st # "none"

(* ---------------- ffmpeg control (process group) ---------------- *)
\* the wait of stop_playback: up to STOP_POLLS liveness polls, STOP_POLL_MS apart
RECURSIVE stop_wait(_, _)
stop_wait(s, i) ==
  IF i >= STOP_POLLS THEN s
  ELSE LET s1 == [s EXCEPT !.g.polls = @ + 1]
       IN IF ~ffmpeg_alive(s1) THEN s1
          ELSE stop_wait(ms_sleep(s1, STOP_POLL_MS), i + 1)

\* a stop that only asks: SIGTERM, the wait, no SIGKILL
stop_playback_no_kill(s, in) ==
  IF s.ffmpeg_pid <= 0 THEN Called(s, "stop")
  ELSE LET pid == s.ffmpeg_pid
           s1 == kill_group(Called(s, "stop"), pid, "SIGTERM", in.quick)
           s2 == IF in.term_dies /\ s1.procs[pid].st = "run"
                 THEN [s1 EXCEPT !.procs[pid].st = "zombie"] ELSE s1
           s3 == stop_wait(s2, 0)
           s5 == waitpid_nohang(s3, pid)
       IN [s5 EXCEPT !.ffmpeg_pid = NO_PID, !.ffmpeg_paused = FALSE]

\* a stop that kills and reaps but goes on tracking the pid
stop_playback_keeps_pid(s, in) ==
  IF s.ffmpeg_pid <= 0 THEN Called(s, "stop")
  ELSE LET pid == s.ffmpeg_pid
           s1 == kill_group(Called(s, "stop"), pid, "SIGTERM", in.quick)
           s2 == IF in.term_dies /\ s1.procs[pid].st = "run"
                 THEN [s1 EXCEPT !.procs[pid].st = "zombie"] ELSE s1
           s3 == stop_wait(s2, 0)
           s4 == kill_group(s3, pid, "SIGKILL", in.quick)
       IN [waitpid_nohang(s4, pid) EXCEPT !.ffmpeg_paused = FALSE]

stop_playback(s, in) ==
  IF s.ffmpeg_pid <= 0 THEN Called(s, "stop")
  ELSE LET pid == s.ffmpeg_pid
           s1 == kill_group(Called(s, "stop"), pid, "SIGTERM", in.quick)
           \* a running process may end on SIGTERM while the daemon waits; a
           \* frozen one has it pending
           s2 == IF in.term_dies /\ s1.procs[pid].st = "run"
                 THEN [s1 EXCEPT !.procs[pid].st = "zombie"] ELSE s1
           s3 == stop_wait(s2, 0)
           s4 == kill_group(s3, pid, "SIGKILL", in.quick)
           s5 == waitpid_nohang(s4, pid)
       IN [s5 EXCEPT !.ffmpeg_pid = NO_PID, !.ffmpeg_paused = FALSE]

pause_ffmpeg(s) ==
  IF ~ffmpeg_alive(s) THEN s
  ELSE [kill_group(s, s.ffmpeg_pid, "SIGSTOP", TRUE) EXCEPT !.ffmpeg_paused = TRUE]

resume_ffmpeg(s) ==
  IF ~ffmpeg_alive(s) THEN s
  ELSE [kill_group(s, s.ffmpeg_pid, "SIGCONT", TRUE) EXCEPT !.ffmpeg_paused = FALSE]

\* r is the line the find | awk pipe prints (NULL: popen failed or no line)
pick_random_video(lib, r) == IF r \in lib THEN r ELSE NULL

start_playback(s, in) ==
  LET s1 == [stop_playback(Called(s, "start"), in) EXCEPT !.g.starts = @ + 1]
      v == pick_random_video(s1.lib, in.v)
      pid == fork(s1, in.fork_ok)
  IN IF v = NULL THEN [s1 EXCEPT !.g.failed = @ + 1]
     ELSE IF pid > 0
          THEN [s1 EXCEPT !.procs[pid] = [st |-> "run", kind |-> "ffmpeg", file |-> v],
                          !.ffmpeg_pid = pid,
                          !.ffmpeg_paused = FALSE,
                          !.g.forked = @ \cup {pid}]
          ELSE [s1 EXCEPT !.g.failed = @ + 1]

(* ---------------- static noise ---------------- *)
static_noise_av(s, in) ==
  LET apid == fork(s, in.afork_ok)
      s0 == Called(s, "noise")
      s1 == IF apid > 0
            THEN [s0 EXCEPT !.procs[apid] = [st |-> "run", kind |-> "noise", file |-> NULL]]
            ELSE s0
      s2 == ms_sleep(ms_sleep(s1, STATIC_FRAMES * FRAME_MS), STATIC_MS)
      \* the noise process has ended by now, or it has not
      s3 == IF apid > 0 /\ in.audio_done
            THEN [s2 EXCEPT !.procs[apid].st = "zombie"] ELSE s2
  IN IF apid > 0 THEN waitpid_nohang(s3, apid) ELSE s3

(* ---------------- taps scheduling ---------------- *)
schedule_single_tap(s) ==
  [s EXCEPT !.pending_single = TRUE,
            !.pending_deadline_ms = now_ms_monotonic(s) + DOUBLE_TAP_WINDOW_MS]

\* a cancel that clears the deadline and leaves the tap armed
cancel_single_tap_keeps_flag(s) ==
  [s EXCEPT !.pending_deadline_ms = 0]

cancel_single_tap(s) ==
  [s EXCEPT !.pending_single = FALSE, !.pending_deadline_ms = 0]

(* ---------------- main state ---------------- *)
\* an off-transition that leaves the pending tap armed
do_power_off_keeps_tap(s, in) ==
  [stop_playback(s, in) EXCEPT !.state = ST_OFF, !.g.pwr = "off"]

\* an off-transition that forgets to stop the playback
do_power_off_no_stop(s, in) ==
  cancel_single_tap([s EXCEPT !.state = ST_OFF, !.g.pwr = "off"])

do_power_off(s, in) ==
  LET s1 == stop_playback(s, in)
      s2 == [s1 EXCEPT !.state = ST_OFF, !.g.pwr = "off"]
  IN cancel_single_tap(s2)

do_power_on(s, in) ==
  LET s1 == start_playback(s, in)
      s2 == [s1 EXCEPT !.state = ST_PLAYING, !.g.pwr = "on"]
  IN cancel_single_tap(s2)

do_pause_toggle(s) ==
  LET s0 == [s EXCEPT !.g.toggles = @ + 1]
  IN IF s0.state = ST_PLAYING
     THEN [pause_ffmpeg(s0) EXCEPT !.state = ST_PAUSED]
     ELSE IF s0.state = ST_PAUSED
          THEN [resume_ffmpeg(s0) EXCEPT !.state = ST_PLAYING]
          ELSE s0

\* a next-episode that does not look at the state
do_next_episode_any_state(s, in) ==
  LET s0 == [s EXCEPT !.g.nexts = @ + 1, !.g.nxt_pending = s.pending_single]
      s1 == stop_playback(s0, in)
      s2 == static_noise_av(s1, in)
      s3 == start_playback(s2, in)
  IN [s3 EXCEPT !.state = ST_PLAYING]

do_next_episode(s, in) ==
  LET s0 == [s EXCEPT !.g.nexts = @ + 1, !.g.nxt_pending = s.pending_single]
  IN IF s0.state # ST_PLAYING THEN s0
     ELSE LET s1 == stop_playback(s0, in)
              s2 == static_noise_av(s1, in)
              s3 == start_playback(s2, in)
          IN [s3 EXCEPT !.state = ST_PLAYING]

(* ---------------- reaper ---------------- *)
\* a reaper that takes every child it reaps for the tracked one
reaped_child_any_pid(s, p, in) ==
  LET s1 == [s EXCEPT !.ffmpeg_pid = NO_PID, !.ffmpeg_paused = FALSE]
  IN IF s1.state # ST_OFF
     THEN IF s1.state = ST_PLAYING THEN start_playback(s1, in) ELSE s1
     ELSE s1

\* lines 388-399: the body of the loop, for the child p that waitpid returned
reaped_child(s, p, in) ==
  IF p = s.ffmpeg_pid
  THEN LET s1 == [s EXCEPT !.ffmpeg_pid = NO_PID, !.ffmpeg_paused = FALSE]
       IN IF s1.state # ST_OFF
          THEN IF s1.state = ST_PLAYING THEN start_playback(s1, in) ELSE s1
          ELSE s1
  ELSE s

\* while ((p = waitpid(-1, &st, WNOHANG)) > 0): one zombie per iteration
RECURSIVE reap_children(_, _)
reap_children(s, in) ==
  LET Z == {p \in Pids : s.procs[p].st = "zombie"}
  IN IF Z = {} THEN s
     ELSE LET p == Min(Z)
              s1 == [s EXCEPT !.procs[p] = NoProc, !.g.reaped = @ \cup {p},
                              !.g.kinds = @ \cup {s.procs[p].kind}]
          IN reap_children(reaped_child(s1, p, in), in)

(* ---------------- main(): the blocks of the controller loop ---------------- *)
\* lines 454-471: a release of BTN_TOUCH read from the device
on_release(s, in) ==
  IF ~s.pending_single
  THEN schedule_single_tap(s)
  ELSE do_next_episode(cancel_single_tap(s), in)

\* an expiry check that waits until the deadline is behind
expiry_check_strict(s) ==
  IF s.pending_single /\ now_ms_monotonic(s) > s.pending_deadline_ms
  THEN do_pause_toggle(cancel_single_tap(s))
  ELSE s

\* lines 476-480: run the single tap if its window has expired
expiry_check(s) ==
  IF s.pending_single /\ now_ms_monotonic(s) >= s.pending_deadline_ms
  THEN do_pause_toggle(cancel_single_tap(s))
  ELSE s

\* lines 435-444: the switch poll, at most every SWITCH_POLL_MS
switch_poll(s, in, t, last, cur_on) ==
  IF t - last >= SWITCH_POLL_MS
  THEN IF ~cur_on /\ s.state # ST_OFF THEN do_power_off(s, in)
       ELSE IF cur_on /\ s.state = ST_OFF THEN do_power_on(s, in)
       ELSE s
  ELSE s

(* ---------------- history ---------------- *)
\* the first release of rel that the daemon has not read yet (0: none)
NextQueued ==
  LET Q == {i \in 1..Len(rel) : rel[i].fate = "queued"}
  IN IF Q = {} THEN 0 ELSE Min(Q)

\* the tracked process changed: forget how the old one died
DiedAfter(s) == IF s.ffmpeg_pid = ffmpeg_pid THEN died_in ELSE -1

\* a power transition disarmed the pending tap, if one was armed
RelAfterPower(s) ==
  IF s.g.pwr # "none" /\ pending_single /\ armer > 0
  THEN [rel EXCEPT ![armer].fate = "cancelled"]
  ELSE rel

Init ==
  /\ state = ST_OFF
  /\ ffmpeg_pid = NO_PID
  /\ ffmpeg_paused = FALSE
  /\ pending_single = FALSE
  /\ pending_deadline_ms = 0
  /\ g_stop = FALSE
  /\ tfd_ok \in BOOLEAN
  /\ ts = [touching |-> FALSE, t_down_ms |-> 0]
  /\ last_switch_poll = 0
  /\ now = 0
  /\ pc = "start"
  /\ clk = BootTime
  /\ procs = [p \in Pids |-> NoProc]
  /\ sw \in BOOLEAN
  /\ evq = <<>>
  /\ library \in Libraries
  /\ ev = NoEv("init")
  /\ rel = <<>>
  /\ armer = 0
  /\ died_in = -1
  /\ ticks = 0
  /\ events = 0
  /\ ontime = 0
  /\ tk = [sw |-> 0, tap |-> 0]
  /\ launch_failed = FALSE

\* lines 404-427: open the touch device, initial power state
Startup ==
  /\ pc = "start"
  /\ \E in \in StartIn(library) :
       LET s == IF sw THEN do_power_on(St("start"), in) ELSE do_power_off(St("start"), in)
       IN Set(s) /\ launch_failed' = (launch_failed \/ s.g.failed > 0)
  /\ ts' = [touching |-> FALSE, t_down_ms |-> 0]
  /\ last_switch_poll' = 0
  /\ pc' = "loop"
  /\ UNCHANGED <<g_stop, tfd_ok, now, sw, evq, library, rel, armer, died_in,
                 ticks, events, ontime, tk>>

\* lines 429-430: while (!g_stop) { now = now_ms_monotonic();
LoopHead ==
  /\ pc = "loop"
  /\ g_stop \/ ticks < MaxTicks
  /\ pc' = IF g_stop THEN "cleanup" ELSE "reap"
  /\ now' = IF g_stop THEN now ELSE clk
  /\ ticks' = IF g_stop THEN ticks ELSE ticks + 1
  /\ ev' = NoEv("loop")
  /\ tk' = IF g_stop THEN tk ELSE [sw |-> 0, tap |-> 0]
  /\ UNCHANGED <<state, ffmpeg_pid, ffmpeg_paused, pending_single, pending_deadline_ms,
                 g_stop, tfd_ok, ts, last_switch_poll, clk, procs, sw, evq, library, rel, armer, died_in, events, ontime,
                 launch_failed>>

\* line 432
Reap ==
  /\ pc = "reap"
  /\ \E in \in StartIn(library) :
       LET s == reap_children([St("reap") EXCEPT !.g.died_in = died_in], in)
       IN /\ Set(s)
          /\ died_in' = DiedAfter(s)
          /\ launch_failed' = (launch_failed \/ s.g.failed > 0)
  /\ pc' = "switch"
  /\ UNCHANGED <<g_stop, tfd_ok, ts, last_switch_poll, now, sw, evq, library,
                 rel, armer, ticks, events, ontime, tk>>

\* lines 435-447: the switch poll, then whether the touch device is read
SwitchPoll ==
  /\ pc = "switch"
  /\ \E in \in StartIn(library) \cup StopIn :
       LET s == switch_poll(St("switch"), in, now, last_switch_poll, sw)
       IN /\ Set(s)
          /\ died_in' = DiedAfter(s)
          /\ rel' = RelAfterPower(s)
          /\ launch_failed' = (launch_failed \/ s.g.failed > 0)
          /\ tk' = [tk EXCEPT !.sw = IF s.g.pwr # "none" THEN @ + 1 ELSE @]
          /\ pc' = IF tfd_ok /\ s.state # ST_OFF THEN "drain" ELSE "expiry"
  /\ last_switch_poll' = IF now - last_switch_poll >= SWITCH_POLL_MS
                         THEN now ELSE last_switch_poll
  /\ UNCHANGED <<g_stop, tfd_ok, ts, now, sw, evq, library, armer, ticks,
                 events, ontime>>

\* lines 449-472: one event read from the touch device
TouchEvent ==
  /\ pc = "drain"
  /\ evq # <<>>
  /\ evq' = Tail(evq)
  /\ IF Head(evq) = 1
     THEN /\ ts' = [touching |-> TRUE, t_down_ms |-> clk]
          /\ Set(St("press"))
          /\ UNCHANGED <<rel, armer, died_in, tk, launch_failed>>
     ELSE /\ ts' = [touching |-> FALSE, t_down_ms |-> 0]
          /\ \E in \in NextIn(library) :
               LET k == NextQueued
                   s == on_release([St("release") EXCEPT !.g.tap = k], in)
               IN /\ Set(s)
                  /\ died_in' = DiedAfter(s)
                  /\ rel' = IF pending_single
                            THEN [rel EXCEPT ![k].fate = "double",
                                             ![armer].fate = "double"]
                            ELSE [rel EXCEPT ![k].fate = "armed"]
                  /\ armer' = IF pending_single THEN armer ELSE k
                  /\ launch_failed' = (launch_failed \/ s.g.failed > 0)
                  \* a next-episode that passed its state test
                  /\ tk' = [tk EXCEPT !.tap = IF s.g.calls # <<>> THEN @ + 1 ELSE @]
  /\ UNCHANGED <<g_stop, tfd_ok, last_switch_poll, now, pc, sw, library,
                 ticks, events, ontime>>

\* line 449: read() finds no further event
TouchDone ==
  /\ pc = "drain"
  /\ evq = <<>>
  /\ pc' = "expiry"
  /\ ev' = NoEv("drained")
  /\ UNCHANGED <<state, ffmpeg_pid, ffmpeg_paused, pending_single, pending_deadline_ms,
                 g_stop, tfd_ok, ts, last_switch_poll, now, clk, procs, sw, evq,
                 library, rel, armer, died_in, ticks, events, ontime, tk,
                 launch_failed>>

\* lines 476-480
Expiry ==
  /\ pc = "expiry"
  /\ LET s == expiry_check([St("expiry") EXCEPT !.g.tap = armer])
     IN /\ Set(s)
        /\ died_in' = DiedAfter(s)
        /\ tk' = [tk EXCEPT !.tap = @ + s.g.toggles]
        /\ rel' = IF s.g.toggles > 0 /\ armer > 0
                  THEN [rel EXCEPT ![armer].fate =
                          IF @ = "armed" THEN "single" ELSE "both"]
                  ELSE rel
  /\ pc' = "sleep"
  /\ UNCHANGED <<g_stop, tfd_ok, ts, last_switch_poll, now, sw, evq, library,
                 armer, ticks, events, ontime,
                 launch_failed>>

\* line 482: ms_sleep(10); the tick ends
Sleep ==
  /\ pc = "sleep"
  /\ \E d \in SleepDeltas :
       /\ d = SLEEP_MS => ontime < MaxOnTime
       /\ Set(ms_sleep(St("sleep"), d))
       /\ ontime' = IF d = SLEEP_MS THEN ontime + 1 ELSE ontime
  /\ pc' = "loop"
  /\ UNCHANGED <<g_stop, tfd_ok, ts, last_switch_poll, now, sw, evq, library,
                 rel, armer, died_in, ticks, events, tk,
                 launch_failed>>

\* a cleanup that returns without stopping the playback
CleanupNoStop ==
  /\ pc = "cleanup"
  /\ Set(St("cleanup"))
  /\ pc' = "done"
  /\ UNCHANGED <<g_stop, tfd_ok, ts, last_switch_poll, now, sw, evq, library,
                 rel, armer, died_in, ticks, events, ontime, tk,
                 launch_failed>>

\* lines 485-489
Cleanup ==
  /\ pc = "cleanup"
  /\ \E in \in StopIn :
       LET s == stop_playback(St("cleanup"), in)
       IN Set(s) /\ died_in' = DiedAfter(s)
  /\ pc' = "done"
  /\ UNCHANGED <<g_stop, tfd_ok, ts, last_switch_poll, now, sw, evq, library,
                 rel, armer, ticks, events, ontime, tk,
                 launch_failed>>

(* ---------------- the environment ---------------- *)
(* The daemon looks at its environment at fixed places: at the switch level *)
(* in the switch poll, at g_stop at the loop head, at the touch device in   *)
(* the drain, at dead children in the reaper.  An event of the environment  *)
(* is therefore placed right before the place that can see it first (and,   *)
(* for a tap and a death, also right after it): an event at any other       *)
(* moment of the tick leads to the same states.                             *)
At(places) == pc \in places

SwitchFlip ==
  /\ At({"switch"})
  /\ events < MaxEvents
  /\ sw' = ~sw
  /\ events' = events + 1
  /\ ev' = NoEv("env")
  /\ UNCHANGED <<state, ffmpeg_pid, ffmpeg_paused, pending_single, pending_deadline_ms,
                 g_stop, tfd_ok, ts, last_switch_poll, now, pc, clk, procs, evq,
                 library, rel, armer, died_in, ticks, ontime, tk,
                 launch_failed>>

\* what the history keeps of a release made now
Release == [t |-> clk, on |-> sw /\ state # ST_OFF, off |-> state = ST_OFF,
            fate |-> "queued"]

\* a tap: the finger goes down and up again before the daemon looks; the
\* device buffers the press and the release
Tap ==
  /\ At({"drain", "sleep"})
  /\ tfd_ok
  /\ events < MaxEvents
  /\ evq' = evq \o <<1, 0>>
  /\ rel' = Append(rel, Release)
  /\ events' = events + 1
  /\ ev' = NoEv("env")
  /\ UNCHANGED <<state, ffmpeg_pid, ffmpeg_paused, pending_single, pending_deadline_ms,
                 g_stop, tfd_ok, ts, last_switch_poll, now, pc, clk, procs, sw,
                 library, armer, died_in, ticks, ontime, tk,
                 launch_failed>>

\* two taps in a row before the daemon looks: the device buffers both
TapTwice ==
  /\ At({"drain", "sleep"})
  /\ tfd_ok
  /\ events < MaxEvents
  /\ evq' = evq \o <<1, 0, 1, 0>>
  /\ rel' = rel \o <<Release, Release>>
  /\ events' = events + 1
  /\ ev' = NoEv("env")
  /\ UNCHANGED <<state, ffmpeg_pid, ffmpeg_paused, pending_single, pending_deadline_ms,
                 g_stop, tfd_ok, ts, last_switch_poll, now, pc, clk, procs, sw,
                 library, armer, died_in, ticks, ontime, tk,
                 launch_failed>>

\* a child ends: the playback process by itself or killed from outside, the
\* noise process when its time is up, a process hit by SIGKILL at last
ProcDie ==
  /\ At({"reap", "expiry"})
  /\ \E p \in Pids :
       LET counted == procs[p].kind = "ffmpeg" /\ procs[p].st \in {"run", "stop"}
       IN /\ procs[p].st \in {"run", "stop", "dying"}
          /\ counted => events < MaxEvents
          /\ procs' = [procs EXCEPT ![p].st = "zombie"]
          /\ events' = IF counted THEN events + 1 ELSE events
          /\ died_in' = IF p = ffmpeg_pid THEN state ELSE died_in
  /\ ev' = NoEv("env")
  /\ UNCHANGED <<state, ffmpeg_pid, ffmpeg_paused, pending_single, pending_deadline_ms,
                 g_stop, tfd_ok, ts, last_switch_poll, now, pc, clk, sw, evq,
                 library, rel, armer, ticks, ontime, tk,
                 launch_failed>>

\* the frozen playback process is killed from outside
KillFrozen ==
  /\ At({"reap", "expiry"})
  /\ ffmpeg_pid > 0
  /\ state = ST_PAUSED
  /\ procs[ffmpeg_pid].st = "stop"
  /\ procs' = [procs EXCEPT ![ffmpeg_pid].st = "zombie"]
  /\ died_in' = state
  /\ ev' = NoEv("env")
  /\ UNCHANGED <<state, ffmpeg_pid, ffmpeg_paused, pending_single, pending_deadline_ms,
                 g_stop, tfd_ok, ts, last_switch_poll, now, pc, clk, sw, evq,
                 library, rel, armer, ticks, events, ontime, tk, launch_failed>>

\* SIGINT or SIGTERM to the daemon: on_sig
Signal ==
  /\ At({"loop"})
  /\ ~g_stop
  /\ events < MaxEvents
  /\ g_stop' = TRUE
  /\ events' = events + 1
  /\ ev' = NoEv("env")
  /\ UNCHANGED <<state, ffmpeg_pid, ffmpeg_paused, pending_single, pending_deadline_ms,
                 tfd_ok, ts, last_switch_poll, now, pc, clk, procs, sw, evq,
                 library, rel, armer, died_in, ticks, ontime, tk,
                 launch_failed>>

Next ==
  \/ Startup
  \/ LoopHead
  \/ Reap
  \/ SwitchPoll
  \/ TouchEvent
  \/ TouchDone
  \/ Expiry
  \/ Sleep
  \/ Cleanup
  \/ SwitchFlip
  \/ Tap
  \/ ProcDie
  \/ Signal

Spec == Init /\ [][Next]_vars

\* The daemon is a running process: a step of main() that can be taken is
\* taken (every call it makes returns: the stop is bounded, the reads of the
\* touch device do not block).  Stated for the two steps that end the daemon,
\* the loop-head check and the cleanup; nothing is assumed of the environment.
FairSpec == Spec /\ WF_vars(LoopHead) /\ WF_vars(Cleanup)

\* the same daemon in a rougher environment: the user also taps in bursts, and
\* a frozen playback process can be killed whatever else has happened
NextBurst ==
  \/ Next
  \/ TapTwice
  \/ KillFrozen

SpecBurst == Init /\ [][NextBurst]_vars

(* ======================= the properties ======================= *)
\* the playback processes that are running or frozen
LivePlayback == {p \in Pids : procs[p].kind = "ffmpeg" /\ procs[p].st \in {"run", "stop"}}

\* the step just taken was a transition of the power state machine
TransitionDone ==
  \/ ev.pwr # "none"
  \/ ev.toggles > 0
  \/ ev.nexts > 0
  \/ ev.op = "reap" /\ ev.pre_pid > 0 /\ ev.pre_pid \in ev.reaped

\* the reaper just reaped the process that was tracked
ReapedTracked == ev.op = "reap" /\ ev.pre_pid > 0 /\ ev.pre_pid \in ev.reaped

\* the tracked process is one launched in the step just taken, playing a file
\* of the library
TracksNewPlayback ==
  /\ ffmpeg_pid > 0
  /\ ffmpeg_pid \in ev.forked
  /\ procs[ffmpeg_pid].kind = "ffmpeg"
  /\ procs[ffmpeg_pid].st = "run"
  /\ procs[ffmpeg_pid].file \in library

\* C1: in every reachable state at most one playback process is running or
\* frozen, and it is the tracked one: no playback process that the daemon has
\* stopped tracking is still running beside a new one.
C1_OnePlayback ==
  /\ Cardinality(LivePlayback) <= 1
  /\ LivePlayback \subseteq {ffmpeg_pid}

\* C1 witness: a double tap has stopped a playback process, which is not reaped
\* yet, and launched its successor, which is the only one running.
C1_Witness ==
  /\ ev.op = "release"
  /\ ev.nexts = 1
  /\ ev.forked # {}
  /\ \E p \in Pids : p # ffmpeg_pid /\ procs[p].kind = "ffmpeg" /\ procs[p].st = "dying"
  /\ LivePlayback = {ffmpeg_pid}

\* C2 (as claimed): after every transition a playback process is tracked if and
\* only if PowerState is not OFF.
C2_TrackedIffOn ==
  TransitionDone => ((ffmpeg_pid > 0) <=> (state # ST_OFF))

\* C3 (as claimed): whenever PowerState is PAUSED a playback process is tracked
\* and the pause flag is set.
C3_PausedIsFrozen ==
  state = ST_PAUSED => (ffmpeg_pid > 0 /\ ffmpeg_paused)

\* C4 (as claimed): a tracked process that died while PLAYING is replaced by a
\* newly launched tracked process in the reap that finds it, with PowerState
\* still PLAYING; one that died while PAUSED leaves PAUSED, no tracked process
\* and no restart attempt.
C4_CrashRecovery ==
  ReapedTracked =>
    /\ ev.died_in = ST_PLAYING => (state = ST_PLAYING /\ TracksNewPlayback)
    /\ ev.died_in = ST_PAUSED =>
         (state = ST_PAUSED /\ ffmpeg_pid = NO_PID /\ ev.starts = 0)

\* the time between release i and the next one
Gap(i) == rel[i + 1].t - rel[i].t

\* every tap so far was made with the power on, and no power transition
\* disarmed one of them
TapsOn == \A i \in 1..Len(rel) : rel[i].on /\ rel[i].fate # "cancelled"

\* C5 (as claimed): when the taps are made with the power on and every two
\* consecutive releases are more than DOUBLE_TAP_WINDOW_MS apart, no release is
\* taken for a part of a double tap: each one waits, armed, and then toggles.
C5_SpacedTapsToggle ==
  (TapsOn /\ \A i \in 1..(Len(rel) - 1) : Gap(i) > DOUBLE_TAP_WINDOW_MS)
    => \A i \in 1..Len(rel) : rel[i].fate \in {"queued", "armed", "single"}

\* C6 (as claimed): when the first two releases are made with the power on and
\* at most DOUBLE_TAP_WINDOW_MS apart, no pause/resume toggle fires for either,
\* and the step that reads the second one fires the double-tap action, once.
C6_PairIsDoubleTap ==
  (Len(rel) >= 2 /\ TapsOn /\ Gap(1) <= DOUBLE_TAP_WINDOW_MS)
    => /\ rel[1].fate \in {"queued", "armed", "double"}
       /\ rel[2].fate \in {"queued", "double"}
       /\ (ev.op = "release" /\ ev.tap = 2) => ev.nexts = 1

\* C7: a release read while a tap is pending runs the double-tap action once,
\* with the pending tap already disarmed (flag false, deadline 0) when it runs
\* and after it; and the expiry check toggles only for a release that armed the
\* tap and was never part of a double tap.
C7_DoubleTapDisarms ==
  /\ (ev.op = "release" /\ ev.pre_pending) =>
       /\ ev.nexts = 1
       /\ ~ev.nxt_pending
       /\ ~pending_single
       /\ pending_deadline_ms = 0
       /\ ev.toggles = 0
  /\ (ev.op = "expiry" /\ ev.toggles > 0) => (ev.tap > 0 /\ rel[ev.tap].fate = "single")
  /\ \A i \in 1..Len(rel) : rel[i].fate # "both"
  /\ ~pending_single => pending_deadline_ms = 0

\* C7 witness: two releases were recognised as a double tap and a later expiry
\* check has run without a toggle.
C7_Witness ==
  /\ Len(rel) = 2
  /\ rel[1].fate = "double"
  /\ rel[2].fate = "double"
  /\ ev.op = "expiry"
  /\ ev.toggles = 0
  /\ ticks >= 2

\* C8 (as claimed): a power-on (the switch seen on while OFF) ends in PLAYING
\* with a tracked process playing a file of the library, the pause flag clear
\* and no tap pending.
C8_PowerOnPlays ==
  ev.pwr = "on" =>
    /\ state = ST_PLAYING
    /\ TracksNewPlayback
    /\ ~ffmpeg_paused
    /\ ~pending_single

\* C9: a power-off (the switch seen off while PLAYING or PAUSED) ends in OFF with
\* no tracked process, the pause flag clear and no tap pending; and in every
\* state with PowerState OFF no process is tracked, the pause flag is false and
\* no tap is pending.
C9_OffIsClean ==
  /\ ev.pwr = "off" => state = ST_OFF
  /\ (ev.op = "switch" /\ ev.pwr = "off") => ev.pre \in {ST_PLAYING, ST_PAUSED}
  /\ state = ST_OFF =>
       /\ ffmpeg_pid = NO_PID
       /\ ~ffmpeg_paused
       /\ ~pending_single
       /\ pending_deadline_ms = 0
       /\ LivePlayback = {}

\* C9 witness: the switch was seen off while PAUSED with a frozen process, which
\* was signalled and is no longer tracked.
C9_Witness ==
  /\ ev.op = "switch"
  /\ ev.pwr = "off"
  /\ ev.pre = ST_PAUSED
  /\ ev.pre_pid > 0
  /\ Len(ev.sigs) > 0
  /\ state = ST_OFF
  /\ ffmpeg_pid = NO_PID

\* what do_power_off can change
Core(s) == <<s.state, s.ffmpeg_pid, s.ffmpeg_paused, s.pending_single,
             s.pending_deadline_ms, s.clk, s.procs>>

\* C10: from every reachable state, do_power_off run twice in succession leaves
\* what one run leaves (OFF, no tracked process, pause flag false, no pending
\* tap), and the second run sends no signal, polls nothing and takes no time; in
\* particular a do_power_off right after the daemon ran one changes nothing.
C10_OffIdempotent ==
  /\ \A in1 \in StopIn :
       LET s1 == do_power_off(St("off"), in1)
           once == [s1 EXCEPT !.g = NoEv("off")]
       IN /\ s1.state = ST_OFF
          /\ s1.ffmpeg_pid = NO_PID
          /\ ~s1.ffmpeg_paused
          /\ ~s1.pending_single
          /\ \A in2 \in StopIn :
               LET s2 == do_power_off(once, in2)
               IN /\ Core(s2) = Core(s1)
                  /\ s2.g.sigs = <<>>
                  /\ s2.g.polls = 0
  /\ ev.pwr = "off" =>
       \A in \in StopIn :
         LET s == do_power_off(St("off"), in)
         IN Core(s) = Core(St("off")) /\ s.g.sigs = <<>>

\* C10 witness: the daemon has just run do_power_off on a playing process: it
\* sent SIGTERM and SIGKILL.
C10_Witness ==
  /\ ev.pwr = "off"
  /\ ev.pre = ST_PLAYING
  /\ Len(ev.sigs) = 2
  /\ state = ST_OFF

\* C11 (as claimed): a tap made on the touch device while PowerState is OFF is
\* never read as a release that arms a pending tap, toggles or makes a double
\* tap, neither while OFF nor after a later power-on: it stays unread.
C11_OffTapsIgnored ==
  \A i \in 1..Len(rel) : rel[i].off => rel[i].fate = "queued"

\* the step just taken read a release while a tap was pending: a double tap
DoubleTapDone == ev.op = "release" /\ ev.nexts = 1

\* C12: a double tap recognised while PAUSED leaves PowerState, the tracked
\* process, the pause flag, every process and the clock as they were, sends no
\* signal and calls neither stop, the transition effect nor start; this holds
\* for the double tap the daemon has just recognised and for the one it would
\* recognise on the next release in every state that is PAUSED with a tap
\* pending.  A double tap recognised while PLAYING calls stop, then the
\* transition effect, then start (which calls stop again), and ends in PLAYING.
C12_DoubleTapOnlyPlaying ==
  /\ (DoubleTapDone /\ ev.pre = ST_PAUSED) =>
       /\ state = ST_PAUSED
       /\ ffmpeg_pid = ev.pre_pid
       /\ ffmpeg_paused = ev.pre_paused
       /\ ev.sigs = <<>>
       /\ ev.calls = <<>>
       /\ ev.starts = 0
       /\ ev.forked = {}
  /\ (DoubleTapDone /\ ev.pre = ST_PLAYING) =>
       /\ state = ST_PLAYING
       /\ ev.calls = <<"stop", "noise", "start", "stop">>
       /\ ev.starts = 1
  /\ (state = ST_PAUSED /\ pending_single) =>
       \A in \in NextIn(library) :
         LET s == on_release(St("release"), in)
         IN /\ s.g.nexts = 1
            /\ s.state = ST_PAUSED
            /\ s.ffmpeg_pid = ffmpeg_pid
            /\ s.ffmpeg_paused = ffmpeg_paused
            /\ s.procs = procs
            /\ s.clk = clk
            /\ s.g.sigs = <<>>
            /\ s.g.calls = <<>>
            /\ s.g.forked = {}

\* C12 witness: PAUSED with a frozen tracked process and a tap pending: the
\* next release is a double tap recognised while PAUSED.
C12_Witness ==
  /\ state = ST_PAUSED
  /\ pending_single
  /\ ffmpeg_pid > 0
  /\ ffmpeg_paused
  /\ procs[ffmpeg_pid].st = "stop"

\* C13: the daemon leaves its loop only with the stop flag set; with the flag
\* set, the loop-head check is the last step of the loop; once the flag is set
\* the daemon eventually returns from main(); and when it has returned, its
\* last step ran stop_playback, no playback process is tracked and none is
\* running or frozen.
C13_StopTerminates ==
  /\ [](pc \in {"cleanup", "done"} => g_stop)
  /\ [][(pc = "loop" /\ g_stop) => pc' = "cleanup"]_vars
  /\ (g_stop ~> pc = "done")
  /\ [](pc = "done" =>
         /\ ev.op = "cleanup"
         /\ ev.calls = <<"stop">>
         /\ ffmpeg_pid = NO_PID
         /\ ~ffmpeg_paused
         /\ LivePlayback = {})

\* C13 witness: the daemon has returned after a signal, and its cleanup
\* stopped a tracked playback process.
C13_Witness ==
  /\ pc = "done"
  /\ g_stop
  /\ ev.pre_pid > 0
  /\ Len(ev.sigs) = 2
  /\ ticks > 0

\* C14 (as claimed): in every tick at most one transition driven by the switch
\* (power on, power off) and at most one driven by taps (pause/resume toggle,
\* next episode) is applied, however many events the touch device has queued.
C14_OnePerTick ==
  /\ tk.sw <= 1
  /\ tk.tap <= 1

\* the switch poll of this tick has just run the off-transition with a tap pending
OffWithPending == ev.op = "switch" /\ ev.pwr = "off" /\ ev.pre_pending

\* C15: the switch poll comes before the taps of its tick: no tap-driven
\* transition of the tick precedes it.  When it observes off with a tap pending
\* (deadline passed or not) the off-transition runs and disarms the tap without
\* a toggle or a next episode; nothing driven by taps is applied in the rest of
\* that tick; and the disarmed tap stays disarmed: no later step toggles for it
\* or takes it for a part of a double tap.
C15_SwitchFirst ==
  /\ [](ev.op = "switch" => tk.tap = 0)
  /\ [](OffWithPending =>
         /\ state = ST_OFF
         /\ ~pending_single
         /\ pending_deadline_ms = 0
         /\ ev.toggles = 0
         /\ ev.nexts = 0
         /\ armer > 0
         /\ rel[armer].fate = "cancelled")
  /\ []((tk.sw = 1 /\ state = ST_OFF) => tk.tap = 0)
  /\ [][\A i \in 1..Len(rel) :
          rel[i].fate = "cancelled" => rel'[i].fate = "cancelled"]_vars

\* C15 witness: the switch poll saw off, with a tap pending, in a tick that
\* began at or after the deadline of that tap, and ran the off-transition.
C15_Witness ==
  /\ OffWithPending
  /\ now >= ev.pre_deadline
  /\ ev.pre_deadline > 0
  /\ state = ST_OFF
  /\ rel[armer].fate = "cancelled"

\* the step just taken began with stop_playback on a tracked process
StopDone == ev.pre_pid > 0 /\ ev.calls # <<>> /\ ev.calls[1] = "stop"

\* C16 (as claimed): stop_playback on a tracked process sends SIGTERM to the
\* group first, polls at most STOP_POLLS times, and sends SIGKILL to the group
\* only if the process is still alive (running or frozen) after all the polls;
\* a power-off or the cleanup ends with no tracked process and the pause flag
\* false.
C16_StopEscalates ==
  StopDone =>
    /\ ev.sigs[1][1] = "SIGTERM"
    /\ ev.sigs[1][2] = ev.pre_pid
    /\ ev.polls <= STOP_POLLS
    /\ \A i \in 1..Len(ev.sigs) :
         ev.sigs[i][1] = "SIGKILL" =>
           /\ i > 1
           /\ ev.sigs[i][2] = ev.pre_pid
           /\ ev.polls = STOP_POLLS
           /\ ev.sigs[i][3] \in {"run", "stop"}
    /\ ev.op \in {"switch", "cleanup"} => (ffmpeg_pid = NO_PID /\ ~ffmpeg_paused)

\* the last step was the expiry check of a tick, with a tap pending
ExpiryWithPending == ev.op = "expiry" /\ ev.pre_pending

\* a release armed the tap at the time it was read, for one window
ArmedAtRead ==
  (ev.op = "release" /\ ~ev.pre_pending) =>
    (pending_single /\ pending_deadline_ms = clk + DOUBLE_TAP_WINDOW_MS)

\* the expiry check toggles for a pending tap exactly when the deadline has come
FiresAtDeadline ==
  /\ ev.toggles > 0 => ExpiryWithPending
  /\ (ExpiryWithPending /\ clk >= ev.pre_deadline) =>
       (ev.toggles = 1 /\ ~pending_single /\ rel[ev.tap].fate = "single")
  /\ (ExpiryWithPending /\ clk < ev.pre_deadline) =>
       (ev.toggles = 0 /\ pending_single /\ pending_deadline_ms = ev.pre_deadline)

\* C17 (as claimed): a pending tap is armed for one window from the read of its
\* release, fires never before its deadline and at the first expiry check at or
\* after it, and every armed tap is eventually disarmed: none is left armed when
\* the daemon has returned.
C17_ArmedTapDisarmed ==
  /\ ArmedAtRead
  /\ FiresAtDeadline
  /\ pc = "done" => ~pending_single

\* C17 (amended): as claimed, except that a tap can stay armed for ever when the
\* stop flag ends the loop: a pending tap is disarmed by exactly one of the
\* expiry check (toggle), a second release (double tap) and a power transition,
\* and by nothing else; the release that armed it has the fate to match.
C17_TapFiresAtDeadline ==
  /\ []ArmedAtRead
  /\ []FiresAtDeadline
  /\ [](pending_single => (armer > 0 /\ rel[armer].fate = "armed"))
  /\ [][(pending_single /\ ~pending_single') =>
          /\ armer > 0
          /\ \/ ev'.op = "expiry" /\ ev'.toggles = 1 /\ ev'.nexts = 0
                /\ ev'.pwr = "none" /\ rel'[armer].fate = "single"
             \/ ev'.op = "release" /\ ev'.nexts = 1 /\ ev'.toggles = 0
                /\ ev'.pwr = "none" /\ rel'[armer].fate = "double"
             \/ ev'.op = "switch" /\ ev'.pwr # "none" /\ ev'.toggles = 0
                /\ ev'.nexts = 0 /\ rel'[armer].fate = "cancelled"]_vars

\* C17 witness: a tick came after the deadline of the pending tap, and its
\* expiry check, the first one at or after the deadline, toggled.
C17_Witness ==
  /\ ExpiryWithPending
  /\ ev.toggles = 1
  /\ clk > ev.pre_deadline
  /\ ticks >= 3
  /\ ~pending_single

\* C18 (as claimed): with a video in the library and no launch that failed, a
\* tick that ends (after its expiry check) in PLAYING ends with a tracked
\* process, also after a resume and also when the process died while PAUSED.
C18_PlayingIsTracked ==
  (pc = "sleep" /\ state = ST_PLAYING /\ library # {} /\ ~launch_failed)
    => ffmpeg_pid > 0

\* the reaper has just reaped children, none of them the tracked process
ReapedUntracked ==
  ev.op = "reap" /\ ev.reaped # {} /\ ev.pre_pid \notin ev.reaped

\* C19: a reap_children run that reaps only children other than the tracked
\* process (the noise process, an earlier playback process) leaves the tracked
\* pid, the pause flag and PowerState as they were, launches nothing and sends
\* no signal; whatever it reaps, it launches at most once, and only when the
\* tracked process was among the reaped and the state was PLAYING.
C19_ReaperOnlyTracked ==
  /\ ReapedUntracked =>
        /\ state = ev.pre
        /\ ffmpeg_pid = ev.pre_pid
        /\ ffmpeg_paused = ev.pre_paused
        /\ ev.starts = 0 /\ ev.forked = {} /\ ev.sigs = <<>> /\ ev.calls = <<>>
  /\ ev.op = "reap" =>
        /\ ev.starts <= 1
        /\ ev.starts = 1 => (ev.pre_pid \in ev.reaped /\ ev.pre = ST_PLAYING)

\* C19 witness: an earlier playback process is reaped while a newer one is
\* tracked and running
C19_Witness ==
  /\ ReapedUntracked
  /\ "ffmpeg" \in ev.kinds
  /\ ev.pre_pid > 0 /\ ffmpeg_pid = ev.pre_pid
  /\ state = ST_PLAYING
  /\ procs[ffmpeg_pid].st = "run"

\* C20 (as claimed): every continue signal goes to the tracked process, with
\* the pause flag true, and that process is alive and frozen (stopped) when the
\* signal is sent; and whenever the pause flag is true, PowerState is PAUSED
\* and a process is tracked.
C20_ContOnlyFrozen ==
  /\ \A i \in 1..Len(ev.sigs) :
        ev.sigs[i][1] = "SIGCONT" =>
          /\ ev.pre_paused
          /\ ev.pre_pid > 0 /\ ev.sigs[i][2] = ev.pre_pid
          /\ ev.sigs[i][3] = "stop"
  /\ ffmpeg_paused => (state = ST_PAUSED /\ ffmpeg_pid > 0)

====
